---- MODULE Spec2Model ----
(***************************************************************************)
(* Publication state machine and credit ledger of the schoolchamps admin   *)
(* server: POST /api/wordpress/publish/:id and POST /api/payment/verify,   *)
(* modelled step by step (one action per awaited store or network call),   *)
(* so that concurrent requests interleave exactly where the handlers       *)
(* yield.                                                                  *)
(***************************************************************************)
EXTENDS Integers, Sequences, FiniteSets, TLC

\* ------------------------------------------------------------------ bounds
\* Number of requests admitted in a run where requests interleave.
MaxRequests == 3
\* Number of requests admitted in a run that handles one request at a time.
MaxSerialRequests == 4

\* Number of requests admitted in a run of two schools' users and a writer.
MaxTenantRequests == 3

\* Number of requests admitted in a run of the blog routes, one at a time.
MaxBlogRequests == 2
\* Number of requests admitted in a run of the submission routes, one at a
\* time.
MaxSubRequests == 3
\* Number of platforms in the list of one POST /post-to-social request.
MaxPlatforms == 2
\* Number of POST /post-to-social requests admitted.
MaxDispatches == 1
\* Number of refreshAll() executions started.
MaxRuns == 2
\* Number of half days the clock advances.
MaxTicks == 1

\* ------------------------------------------------------- program constants
PublishCost == 99
PublishReward == 50
PackageCoins == 99

\* --------------------------------------------------------------- universes
Schools == {"sA", "sB"}
NoSchool == "noSchool"
Blogs == {"b1", "b2"}
NoBlog == "noBlog"
Subs == {"sub1", "sub2"}
Reqs == {1, 2}
OrderId == "order1"
PaymentId == "pay1"
KeySecret == "razorpaySecret"

\* The authenticated users able to issue requests: role plus, for a
\* school-role user, the school they belong to.
Actors ==
  {[role |-> "admin", schoolId |-> NoSchool],
   [role |-> "writer", schoolId |-> NoSchool]}
  \cup {[role |-> "school", schoolId |-> s] : s \in Schools}

\* crypto.createHmac('sha256', secret).update(body).digest('hex'): a keyed
\* digest, injective in (body, secret) for the inputs of the model.
HmacSha256(body, secret) == <<"hmac", body, secret>>

\* The signatures a client may send: the genuine one and one made with a
\* different key.
Signatures ==
  {HmacSha256(<<OrderId, "|", PaymentId>>, KeySecret),
   HmacSha256(<<OrderId, "|", PaymentId>>, "otherSecret")}

VARIABLES
  coins,       \* School.coins, per school
  ledger,      \* the Transaction collection, in creation order
  blog,        \* the Blog collection
  submission,  \* the Submission collection (status only)
  wpPosts,     \* number of posts created on the WordPress site
  req,         \* per request slot: handler position, locals, response
  nreq,        \* number of requests admitted so far
  token,       \* the SocialToken collection: one record per platform
  env,         \* process.env: the META_* settings of the deployment
  now,         \* Date.now(), in hours
  issued,      \* number of access tokens the LinkedIn token API has issued
  socialPosts, \* the SocialPost collection, in creation order
  disp,        \* the POST /post-to-social request: position, locals, response
  ndisp,       \* number of dispatch requests admitted so far
  run,         \* per refreshAll() execution: position and locals
  nruns        \* number of refreshAll() executions started so far

ledgerVars == <<coins, ledger, blog, submission, wpPosts, req, nreq>>
socialVars == <<token, env, now, issued, socialPosts, disp, ndisp, run, nruns>>
vars == <<ledgerVars, socialVars>>

\* What a request has done so far (bookkeeping for the properties).
NoneDone == [bal |-> FALSE, tx |-> 0, wp |-> 0, blogW |-> FALSE, subW |-> FALSE]

\* What a request found when it arrived (bookkeeping for the properties):
\* the balance of the school it concerns, the length of the ledger, the
\* blog's status and WordPress fields, the linked submission's status.
NoneFound == [coins |-> 0, len |-> 0, status |-> "none", wp |-> FALSE, subStatus |-> "none"]

IdleReq ==
  [op |-> "idle", pc |-> "idle", role |-> "none", usch |-> NoSchool,
   b |-> NoBlog, sch |-> NoSchool, sub |-> "noSub", local |-> 0, cb |-> 0,
   wpRes |-> "none", resp |-> "none", did |-> NoneDone, found |-> NoneFound,
   sig |-> <<>>]

\* ------------------------------------------------------------------ ledger
\* Transaction.create({schoolId, type, coins, coinsBefore, coinsAfter, referenceId})
Tx(s, type, n, before, after, ref) ==
  [schoolId |-> s, type |-> type, coins |-> n,
   coinsBefore |-> before, coinsAfter |-> after, referenceId |-> ref]

\* Signed delta of one Transaction: purchase and reward add, debit subtracts.
Signed(t) == IF t.type = "debit" THEN 0 - t.coins ELSE t.coins

RECURSIVE SumDeltas(_, _)
SumDeltas(led, s) ==
  IF led = <<>> THEN 0
  ELSE (IF Head(led).schoolId = s THEN Signed(Head(led)) ELSE 0)
       + SumDeltas(Tail(led), s)

\* ------------------------------------------------------ request lifecycle
InFlight(r) == req[r].pc \notin {"idle", "done"}
NoneInFlight == \A r \in Reqs : ~InFlight(r)

\* Request slots are interchangeable; an arriving request takes the lowest
\* slot that is not in flight.
FreeSlot(r) == ~InFlight(r) /\ \A q \in Reqs : q < r => InFlight(q)

Respond(r, code) ==
  req' = [req EXCEPT ![r].pc = "done", ![r].resp = code]

\* ----------------------------------------------- POST /publish/:id (steps)
\* Variant: the balance check applied to school-role users only.
InsufficientCoins_schoolOnly(balance, role) == balance < PublishCost /\ role = "school"

\* Variant: the balance check only refuses an overdrawn account.
InsufficientCoins_overdrawn(balance, role) == balance < 0 /\ role # "admin"

\* `school.coins < 99 && req.user?.role !== 'admin'`
InsufficientCoins(balance, role) == balance < PublishCost /\ role # "admin"

\* Variant: the ledger block runs for every role.
AfterBalanceCheck_always(role) == "saveSchool"

\* Variant: the ledger block is skipped for every role.
AfterBalanceCheck_never(role) == "createPost"

\* `if (req.user?.role !== 'admin')`: the ledger block runs for non-admins,
\* admins go straight on to the WordPress calls.
AfterBalanceCheck(role) == IF role # "admin" THEN "saveSchool" ELSE "createPost"

\* Variant: the reward is logged but not added to the balance.
ChargedBalance_noReward(coinsBefore) == coinsBefore - PublishCost

\* `school.coins = coinsBefore - 99 + 50`
ChargedBalance(coinsBefore) == coinsBefore - PublishCost + PublishReward

\* Request arrives; Blog.findById and the checks on its result.
PublishFindBlog(r, actor, b) ==
  /\ FreeSlot(r)
  /\ nreq' = nreq + 1
  /\ LET base == [IdleReq EXCEPT !.op = "publish", !.role = actor.role,
                                 !.usch = actor.schoolId, !.b = b]
         s == blog[b].assignedSchool
         u == blog[b].submissionId
     IN IF b \notin DOMAIN blog
        THEN req' = [req EXCEPT ![r] = [base EXCEPT !.pc = "done", !.resp = "404 blog not found"]]
        ELSE IF blog[b].assignedSchool = NoSchool
        THEN req' = [req EXCEPT ![r] = [base EXCEPT !.pc = "done", !.resp = "400 not assigned"]]
        ELSE IF actor.role = "school" /\ blog[b].assignedSchool # actor.schoolId
        THEN req' = [req EXCEPT ![r] = [base EXCEPT !.pc = "done", !.resp = "403 not authorized"]]
        ELSE req' = [req EXCEPT ![r] =
                       [base EXCEPT !.pc = "findSchool", !.sch = s, !.sub = u,
                                    !.found = [coins |-> IF s \in DOMAIN coins THEN coins[s] ELSE 0,
                                               len |-> Len(ledger),
                                               status |-> blog[b].status,
                                               wp |-> blog[b].wp,
                                               subStatus |-> IF u \in DOMAIN submission
                                                             THEN submission[u].status
                                                             ELSE "none"]]]
  /\ UNCHANGED <<coins, ledger, blog, submission, wpPosts>>
  /\ UNCHANGED socialVars

\* Variant: the balance is charged and stored before it is checked.
PublishFindSchool_chargeFirst(r) ==
  /\ req[r].op = "publish" /\ req[r].pc = "findSchool"
  /\ LET s == req[r].sch
     IN IF s \notin DOMAIN coins
        THEN Respond(r, "404 school not found") /\ UNCHANGED coins
        ELSE IF InsufficientCoins(coins[s], req[r].role)
        THEN /\ req' = [req EXCEPT ![r].pc = "done", ![r].resp = "403 insufficient coins",
                                   ![r].cb = coins[s], ![r].local = coins[s]]
             /\ coins' = [coins EXCEPT ![s] = ChargedBalance(coins[s])]
        ELSE /\ req' = [req EXCEPT ![r].pc = AfterBalanceCheck(req[r].role),
                                   ![r].cb = coins[s],
                                   ![r].local = IF req[r].role # "admin"
                                                THEN ChargedBalance(coins[s])
                                                ELSE coins[s]]
             /\ UNCHANGED coins
  /\ UNCHANGED <<ledger, blog, submission, wpPosts, nreq>>
  /\ UNCHANGED socialVars

\* School.findById, the balance check, and the in-memory balance update.
PublishFindSchool(r) ==
  /\ req[r].op = "publish" /\ req[r].pc = "findSchool"
  /\ LET s == req[r].sch
     IN IF s \notin DOMAIN coins
        THEN Respond(r, "404 school not found")
        ELSE IF InsufficientCoins(coins[s], req[r].role)
        THEN req' = [req EXCEPT ![r].pc = "done", ![r].resp = "403 insufficient coins",
                                ![r].cb = coins[s], ![r].local = coins[s]]
        ELSE req' = [req EXCEPT ![r].pc = AfterBalanceCheck(req[r].role),
                                ![r].cb = coins[s],
                                ![r].local = IF req[r].role # "admin"
                                             THEN ChargedBalance(coins[s])
                                             ELSE coins[s]]
  /\ UNCHANGED <<coins, ledger, blog, submission, wpPosts, nreq>>
  /\ UNCHANGED socialVars

\* `await school.save()`
PublishSaveSchool(r) ==
  /\ req[r].op = "publish" /\ req[r].pc = "saveSchool"
  /\ coins' = [coins EXCEPT ![req[r].sch] = req[r].local]
  /\ req' = [req EXCEPT ![r].pc = "logDebit", ![r].did.bal = TRUE]
  /\ UNCHANGED <<ledger, blog, submission, wpPosts, nreq>>
  /\ UNCHANGED socialVars

\* Variant: the debit entry records the stored balance, reward included, as
\* its coinsAfter.
PublishLogDebit_afterIsBalance(r) ==
  /\ req[r].op = "publish" /\ req[r].pc = "logDebit"
  /\ ledger' = Append(ledger, Tx(req[r].sch, "debit", PublishCost,
                                 req[r].cb, req[r].local, req[r].b))
  /\ req' = [req EXCEPT ![r].pc = "logReward", ![r].did.tx = @ + 1]
  /\ UNCHANGED <<coins, blog, submission, wpPosts, nreq>>
  /\ UNCHANGED socialVars

\* `await Transaction.create({type: 'debit', ...})`
PublishLogDebit(r) ==
  /\ req[r].op = "publish" /\ req[r].pc = "logDebit"
  /\ ledger' = Append(ledger, Tx(req[r].sch, "debit", PublishCost,
                                 req[r].cb, req[r].cb - PublishCost, req[r].b))
  /\ req' = [req EXCEPT ![r].pc = "logReward", ![r].did.tx = @ + 1]
  /\ UNCHANGED <<coins, blog, submission, wpPosts, nreq>>
  /\ UNCHANGED socialVars

\* Variant: the reward entry snapshots the balance before the debit.
PublishLogReward_unchained(r) ==
  /\ req[r].op = "publish" /\ req[r].pc = "logReward"
  /\ ledger' = Append(ledger, Tx(req[r].sch, "reward", PublishReward,
                                 req[r].cb, req[r].local, req[r].b))
  /\ req' = [req EXCEPT ![r].pc = "createPost", ![r].did.tx = @ + 1]
  /\ UNCHANGED <<coins, blog, submission, wpPosts, nreq>>
  /\ UNCHANGED socialVars

\* Variant: the reward is folded into the debit entry already written,
\* instead of being a new entry.
PublishLogReward_amend(r) ==
  /\ req[r].op = "publish" /\ req[r].pc = "logReward"
  /\ \E i \in 1..Len(ledger) :
       /\ ledger[i] = Tx(req[r].sch, "debit", PublishCost,
                         req[r].cb, req[r].cb - PublishCost, req[r].b)
       /\ ledger' = [ledger EXCEPT ![i] = Tx(req[r].sch, "debit", PublishCost - PublishReward,
                                             req[r].cb, req[r].local, req[r].b)]
  /\ req' = [req EXCEPT ![r].pc = "createPost", ![r].did.tx = @ + 1]
  /\ UNCHANGED <<coins, blog, submission, wpPosts, nreq>>
  /\ UNCHANGED socialVars

\* `await Transaction.create({type: 'reward', ...})`
PublishLogReward(r) ==
  /\ req[r].op = "publish" /\ req[r].pc = "logReward"
  /\ ledger' = Append(ledger, Tx(req[r].sch, "reward", PublishReward,
                                 req[r].cb - PublishCost, req[r].local, req[r].b))
  /\ req' = [req EXCEPT ![r].pc = "createPost", ![r].did.tx = @ + 1]
  /\ UNCHANGED <<coins, blog, submission, wpPosts, nreq>>
  /\ UNCHANGED socialVars

\* Variant: a createPost error is swallowed like the media upload's, and the
\* handler carries on to the blog update.
PublishCreatePost_swallow(r) ==
  /\ req[r].op = "publish" /\ req[r].pc = "createPost"
  /\ \E ok \in BOOLEAN :
       /\ wpPosts' = IF ok THEN wpPosts + 1 ELSE wpPosts
       /\ req' = [req EXCEPT ![r].pc = "saveBlog", ![r].did.wp = @ + 1,
                             ![r].wpRes = IF ok THEN "created" ELSE "threw"]
  /\ UNCHANGED <<coins, ledger, blog, submission, nreq>>
  /\ UNCHANGED socialVars

\* Variant: a createPost error gives the school its coins back.
PublishCreatePost_refund(r) ==
  /\ req[r].op = "publish" /\ req[r].pc = "createPost"
  /\ \E ok \in BOOLEAN :
       IF ok
       THEN /\ wpPosts' = wpPosts + 1
            /\ coins' = coins
            /\ req' = [req EXCEPT ![r].pc = "saveBlog", ![r].did.wp = @ + 1,
                                  ![r].wpRes = "created"]
       ELSE /\ wpPosts' = wpPosts
            /\ coins' = [coins EXCEPT ![req[r].sch] = req[r].cb]
            /\ req' = [req EXCEPT ![r].pc = "done", ![r].did.wp = @ + 1,
                                  ![r].wpRes = "threw",
                                  ![r].resp = "500 publish failed"]
  /\ UNCHANGED <<ledger, blog, submission, nreq>>
  /\ UNCHANGED socialVars

\* The WordPress calls: media upload and tag reconciliation (their errors are
\* swallowed), then wordpressClient.createPost, which may throw.
PublishCreatePost(r) ==
  /\ req[r].op = "publish" /\ req[r].pc = "createPost"
  /\ \E ok \in BOOLEAN :
       IF ok
       THEN /\ wpPosts' = wpPosts + 1
            /\ req' = [req EXCEPT ![r].pc = "saveBlog", ![r].did.wp = @ + 1,
                                  ![r].wpRes = "created"]
       ELSE /\ wpPosts' = wpPosts
            /\ req' = [req EXCEPT ![r].pc = "done", ![r].did.wp = @ + 1,
                                  ![r].wpRes = "threw",
                                  ![r].resp = "500 publish failed"]
  /\ UNCHANGED <<coins, ledger, blog, submission, nreq>>
  /\ UNCHANGED socialVars

\* `blog.status = 'published_wp'; ...; await blog.save()`
PublishSaveBlog(r) ==
  /\ req[r].op = "publish" /\ req[r].pc = "saveBlog"
  /\ blog' = [blog EXCEPT ![req[r].b].status = "published_wp",
                          ![req[r].b].wp = TRUE]
  /\ req' = [req EXCEPT ![r].pc = "updateSubmission", ![r].did.blogW = TRUE]
  /\ UNCHANGED <<coins, ledger, submission, wpPosts, nreq>>
  /\ UNCHANGED socialVars

\* `await Submission.findByIdAndUpdate(blog.submissionId, {status: 'published_wp'})`
PublishUpdateSubmission(r) ==
  /\ req[r].op = "publish" /\ req[r].pc = "updateSubmission"
  /\ submission' = IF req[r].sub \in DOMAIN submission
                   THEN [submission EXCEPT ![req[r].sub].status = "published_wp"]
                   ELSE submission
  /\ req' = [req EXCEPT ![r].pc = "done", ![r].resp = "200 published",
                        ![r].did.subW = TRUE]
  /\ UNCHANGED <<coins, ledger, blog, wpPosts, nreq>>
  /\ UNCHANGED socialVars

\* ----------------------------------------------- POST /verify (steps)
\* Variant: the package is credited twice over.
CreditedBalance_double(coinsBefore) == coinsBefore + PackageCoins + PackageCoins

\* `school.coins = coinsBefore + 99`
CreditedBalance(coinsBefore) == coinsBefore + PackageCoins

\* Request arrives: role check, signature check, School.findById.
VerifyFindSchool(r, actor, sig) ==
  /\ FreeSlot(r)
  /\ nreq' = nreq + 1
  /\ LET base == [IdleReq EXCEPT !.op = "verify", !.role = actor.role,
                                 !.usch = actor.schoolId, !.sig = sig]
         expectedSignature == HmacSha256(<<OrderId, "|", PaymentId>>, KeySecret)
     IN IF actor.role # "school" \/ actor.schoolId = NoSchool
        THEN req' = [req EXCEPT ![r] = [base EXCEPT !.pc = "done", !.resp = "403 not authorized"]]
        ELSE IF expectedSignature # sig
        THEN req' = [req EXCEPT ![r] = [base EXCEPT !.pc = "done", !.resp = "400 invalid signature"]]
        ELSE IF actor.schoolId \notin DOMAIN coins
        THEN req' = [req EXCEPT ![r] = [base EXCEPT !.pc = "done", !.resp = "404 school not found"]]
        ELSE req' = [req EXCEPT ![r] =
                       [base EXCEPT !.pc = "saveSchool", !.sch = actor.schoolId,
                                    !.cb = coins[actor.schoolId],
                                    !.local = CreditedBalance(coins[actor.schoolId]),
                                    !.found = [NoneFound EXCEPT !.coins = coins[actor.schoolId],
                                                                !.len = Len(ledger)]]]
  /\ UNCHANGED <<coins, ledger, blog, submission, wpPosts>>
  /\ UNCHANGED socialVars

\* `await school.save()`
VerifySaveSchool(r) ==
  /\ req[r].op = "verify" /\ req[r].pc = "saveSchool"
  /\ coins' = [coins EXCEPT ![req[r].sch] = req[r].local]
  /\ req' = [req EXCEPT ![r].pc = "logPurchase", ![r].did.bal = TRUE]
  /\ UNCHANGED <<ledger, blog, submission, wpPosts, nreq>>
  /\ UNCHANGED socialVars

\* `await Transaction.create({type: 'purchase', ...})`
VerifyLogPurchase(r) ==
  /\ req[r].op = "verify" /\ req[r].pc = "logPurchase"
  /\ ledger' = Append(ledger, Tx(req[r].sch, "purchase", PackageCoins,
                                 req[r].cb, req[r].local, PaymentId))
  /\ req' = [req EXCEPT ![r].pc = "done", ![r].resp = "200 credited",
                        ![r].did.tx = @ + 1]
  /\ UNCHANGED <<coins, blog, submission, wpPosts, nreq>>
  /\ UNCHANGED socialVars

\* ===================================== blog routes (part_003, admin.ts)
\* Blog.status: enum of the schema.
BlogStatuses ==
  {"draft_writer", "draft_created", "review", "approved_school", "rejected",
   "published_wp"}
\* The statuses PUT /api/admin/blogs/:id/status accepts.
AdminStatuses == {"draft_created", "review", "published_wp"}

\* The request bodies PUT /api/blogs/:id and PUT /api/blogs/review/:id may
\* carry: any subset of the blog's fields. Here: a status, the WordPress
\* fields (set or cleared), an assigned school, or text only.
BlogBodies ==
  {[status |-> st] : st \in BlogStatuses}
  \cup {[wp |-> w] : w \in BOOLEAN}
  \cup {[assignedSchool |-> sc] : sc \in Schools \cup {NoSchool}}
  \cup {[content |-> "edited"]}

\* Blog.findByIdAndUpdate(id, body): the fields of the body replace the
\* blog's, the others stay.
Updated(b, body) ==
  [f \in DOMAIN blog[b] |-> IF f \in DOMAIN body THEN body[f] ELSE blog[b][f]]

\* A request of the blog routes, handled while no other request is in
\* flight: who asked, for which blog, what the blog was, the answer.
HandledFor(r, op, actor, b, schoolId, code) ==
  /\ NoneInFlight /\ FreeSlot(r)
  /\ nreq < MaxBlogRequests
  /\ nreq' = nreq + 1
  /\ req' = [req EXCEPT ![r] =
       [IdleReq EXCEPT !.op = op, !.pc = "done", !.role = actor.role,
                       !.usch = actor.schoolId, !.b = b, !.sch = schoolId,
                       !.resp = code,
                       !.found = IF b \in Blogs
                                 THEN [NoneFound EXCEPT !.status = blog[b].status,
                                                        !.wp = blog[b].wp]
                                 ELSE NoneFound]]
  /\ UNCHANGED <<coins, ledger, submission, wpPosts>>
  /\ UNCHANGED socialVars

\* The same for the routes that name no school.
Handled(r, op, actor, b, code) == HandledFor(r, op, actor, b, NoSchool, code)

\* PUT /api/blogs/:id
UpdateBlog(r, actor, b, body) ==
  LET canEdit == \/ actor.role \in {"admin", "writer"}
                 \/ actor.role = "school" /\ blog[b].assignedSchool = actor.schoolId
  IN IF b \notin Blogs
     THEN Handled(r, "update", actor, b, "404 blog not found") /\ UNCHANGED blog
     ELSE IF ~canEdit
     THEN Handled(r, "update", actor, b, "403 not authorized") /\ UNCHANGED blog
     ELSE /\ Handled(r, "update", actor, b, "200 updated")
          /\ blog' = [blog EXCEPT ![b] = Updated(b, body)]

\* An id that names no School document: the :schoolId of the assign route is
\* stored as given, without a lookup.
GoneSchool == "sGone"

\* Variant: the route is open to every authenticated role.
AssignBlog_anyRole(r, actor, schoolId, b) ==
  IF b \notin Blogs
  THEN HandledFor(r, "assign", actor, b, schoolId, "404 blog not found") /\ UNCHANGED blog
  ELSE /\ HandledFor(r, "assign", actor, b, schoolId, "200 assigned")
       /\ blog' = [blog EXCEPT ![b].assignedSchool = schoolId, ![b].status = "review"]

\* POST /api/blogs/assign/:schoolId/:id
AssignBlog(r, actor, schoolId, b) ==
  IF actor.role \notin {"writer", "admin"}
  THEN HandledFor(r, "assign", actor, b, schoolId, "403 not authorized") /\ UNCHANGED blog
  ELSE IF b \notin Blogs
  THEN HandledFor(r, "assign", actor, b, schoolId, "404 blog not found") /\ UNCHANGED blog
  ELSE /\ HandledFor(r, "assign", actor, b, schoolId, "200 assigned")
       /\ blog' = [blog EXCEPT ![b].assignedSchool = schoolId, ![b].status = "review"]

\* PUT /api/blogs/review/:id
ReviewBlog(r, actor, b, body) ==
  IF actor.role \notin {"school", "admin"}
  THEN Handled(r, "review", actor, b, "403 not authorized") /\ UNCHANGED blog
  ELSE IF b \notin Blogs
  THEN Handled(r, "review", actor, b, "404 blog not found") /\ UNCHANGED blog
  ELSE IF actor.role = "school" /\ blog[b].assignedSchool # actor.schoolId
  THEN Handled(r, "review", actor, b, "403 not authorized") /\ UNCHANGED blog
  ELSE /\ Handled(r, "review", actor, b, "200 reviewed")
       /\ blog' = [blog EXCEPT ![b] = Updated(b, body)]

\* PUT /api/admin/blogs/:id/status
AdminSetStatus(r, actor, b, status) ==
  IF actor.role # "admin"
  THEN Handled(r, "status", actor, b, "403 not authorized") /\ UNCHANGED blog
  ELSE IF status \notin AdminStatuses
  THEN Handled(r, "status", actor, b, "400 invalid status") /\ UNCHANGED blog
  ELSE IF b \notin Blogs
  THEN Handled(r, "status", actor, b, "404 blog not found") /\ UNCHANGED blog
  ELSE /\ Handled(r, "status", actor, b, "200 status updated")
       /\ blog' = [blog EXCEPT ![b].status = status]

\* ================== submission routes (submissions.ts, ai.ts generate-draft)
\* Submission.status: enum of the schema, in the order of the workflow.
SubmissionStatuses == {"submitted_school", "draft_created", "review", "published_wp"}
SubRank(st) ==
  CASE st = "submitted_school" -> 1
    [] st = "draft_created" -> 2
    [] st = "review" -> 3
    [] st = "published_wp" -> 4

\* Submission.schoolId: the school that made the submission.
SubmissionSchool(u) == IF u = "sub1" THEN "sA" ELSE "sB"
NoSub == "noSub"

\* The ids of the blogs generate-draft creates, in order of creation.
DraftIds == <<"d1", "d2", "d3", "d4", "d5">>
NextDraftId == DraftIds[Cardinality(DOMAIN blog) - Cardinality(Blogs) + 1]

\* A request of the submission routes, handled while no other request is in
\* flight: who asked, for which submission, what its status was, the answer.
HandledSub(r, op, actor, u, code) ==
  /\ NoneInFlight /\ FreeSlot(r)
  /\ nreq < MaxSubRequests
  /\ nreq' = nreq + 1
  /\ req' = [req EXCEPT ![r] =
       [IdleReq EXCEPT !.op = op, !.pc = "done", !.role = actor.role,
                       !.usch = actor.schoolId, !.sub = u, !.resp = code,
                       !.found = IF u \in Subs
                                 THEN [NoneFound EXCEPT !.subStatus = submission[u].status]
                                 ELSE NoneFound]]
  /\ UNCHANGED <<coins, ledger, wpPosts>>
  /\ UNCHANGED socialVars

\* PUT /api/submissions/:id: writer or admin; the status of the body (None
\* when the body has none) is written as given.
UpdateSubmission(r, actor, u, status) ==
  IF actor.role \notin {"writer", "admin"}
  THEN HandledSub(r, "updateSub", actor, u, "403 not authorized")
       /\ UNCHANGED <<blog, submission>>
  ELSE IF u \notin Subs
  THEN HandledSub(r, "updateSub", actor, u, "404 submission not found")
       /\ UNCHANGED <<blog, submission>>
  ELSE /\ HandledSub(r, "updateSub", actor, u, "200 updated")
       /\ submission' = IF status = "none" THEN submission
                        ELSE [submission EXCEPT ![u].status = status]
       /\ UNCHANGED blog

\* POST /api/ai/generate-draft/:submissionId: any authenticated role; the AI
\* call may fail (500, nothing written); otherwise a blog is created in
\* draft_created for the submission's school and the submission is set to
\* draft_created.
GenerateDraft(r, actor, u) ==
  IF u \notin Subs
  THEN HandledSub(r, "draft", actor, u, "404 submission not found")
       /\ UNCHANGED <<blog, submission>>
  ELSE \E ok \in BOOLEAN :
         IF ~ok
         THEN HandledSub(r, "draft", actor, u, "500 draft failed")
              /\ UNCHANGED <<blog, submission>>
         ELSE /\ HandledSub(r, "draft", actor, u, "201 draft generated")
              /\ blog' = [x \in DOMAIN blog \cup {NextDraftId} |->
                            IF x \in DOMAIN blog THEN blog[x]
                            ELSE [status |-> "draft_created",
                                  assignedSchool |-> SubmissionSchool(u),
                                  submissionId |-> u,
                                  wp |-> FALSE,
                                  featuredImage |-> (u = "sub1")]]
              /\ submission' = [submission EXCEPT ![u].status = "draft_created"]

\* ================================================= social tokens and posts
None == "none"

\* Time is counted in hours; a day is 1000 * 60 * 60 * 24 ms.
DayHours == 24
StartNow == 24

\* The executions of refreshAll(): the one the daily cron job starts and one
\* started on demand.
Runs == {"scheduled", "onDemand"}

\* SocialPost.platform: enum ['instagram', 'linkedin', 'twitter', 'facebook'].
SocialPlatforms == {"instagram", "linkedin", "twitter", "facebook"}
\* A platform name a request may carry that the schema does not know.
UnknownPlatform == "tiktok"

\* The platform lists a request may carry: every list of at most
\* MaxPlatforms names, repetitions included.
PlatformLists ==
  UNION {[1..n -> SocialPlatforms \cup {UnknownPlatform}] : n \in 0..MaxPlatforms}

\* SocialToken records. LinkedIn: access token (a number, in order of issue),
\* refresh token, expiry (hours, NoExpiry when the field is unset),
\* personUrn. Facebook: access token (user or page token) and pageId.
NoExpiry == -1
NoLinkedIn ==
  [present |-> FALSE, accessToken |-> 0, refreshToken |-> None,
   tokenExpiresAt |-> NoExpiry, personUrn |-> None]
NoFacebook == [present |-> FALSE, accessToken |-> None, pageId |-> None]
PageId == "page1"
PersonUrn == "urn:li:person:1"

\* FacebookClient.getCredentials, the values it resolves: the stored record
\* first, the environment second.
FacebookAccessToken ==
  IF token.facebook.present /\ token.facebook.accessToken # None
  THEN token.facebook.accessToken ELSE env.metaToken
FacebookPageId ==
  IF token.facebook.present /\ token.facebook.pageId # None
  THEN token.facebook.pageId ELSE env.metaPage
FacebookConfigured == FacebookAccessToken # None /\ FacebookPageId # None

\* GET /{pageId}?fields=access_token as getCredentials uses it: the call
\* fails, answers without a token, or answers with the page token.
ExchangeOutcomes == {"error", "noToken", "pageToken"}

\* The record after getCredentials ran with exchange outcome x: a page token
\* that differs from the one in use is upserted with the page id.
AfterExchange(x) ==
  IF x = "pageToken" /\ FacebookAccessToken # "fbPage"
  THEN [present |-> TRUE, accessToken |-> "fbPage", pageId |-> FacebookPageId]
  ELSE token.facebook

\* LinkedInClient.getCredentials throws unless accessToken and personUrn
\* are stored.
LinkedInConfigured == token.linkedin.present /\ token.linkedin.personUrn # None

\* InstagramClient: account id and token come from the environment.
InstagramConfigured == env.igAccount # None /\ env.metaToken # None

\* A run of HTTP calls made one after the other, the first failure ending
\* the run: k is the failing call (0 when none fails).
ChainRuns(apis) ==
  {[j \in 1..(IF k = 0 THEN Len(apis) ELSE k) |-> [api |-> apis[j], ok |-> j # k]] :
     k \in 0..Len(apis)}
AllOk(calls) == \A j \in 1..Len(calls) : calls[j].ok

\* blog?.featuredImage after Blog.findById(blogId).
ImageOf(blogId) == blogId \in Blogs /\ blog[blogId].featuredImage

\* ------------------------------------- POST /api/ai/post-to-social (ai.ts)
IdleDisp ==
  [pc |-> "idle", blogId |-> NoBlog, platforms |-> <<>>, i |-> 0,
   isPublished |-> FALSE, publishedId |-> None, att |-> <<>>,
   posts |-> <<>>, resp |-> "none", foundLen |-> 0]

DispatchPlatform == disp.platforms[disp.i]

\* The locals after the per-platform branch ran with the given calls.
Attempted_optimistic(calls, published, id) ==
  /\ disp' = [disp EXCEPT !.pc = "save",
                          !.isPublished = TRUE,
                          !.publishedId = id,
                          !.att = Append(@, [platform |-> DispatchPlatform,
                                             calls |-> calls])]
  /\ UNCHANGED <<socialPosts, ndisp>>
Attempted(calls, published, id) ==
  /\ disp' = [disp EXCEPT !.pc = "save",
                          !.isPublished = published,
                          !.publishedId = IF published THEN id ELSE None,
                          !.att = Append(@, [platform |-> DispatchPlatform,
                                             calls |-> calls])]
  /\ UNCHANGED <<socialPosts, ndisp>>

\* The request arrives: input validation, then the loop over platforms.
DispatchArrive(blogId, platforms) ==
  /\ disp.pc \in {"idle", "done"}
  /\ ndisp < MaxDispatches
  /\ ndisp' = ndisp + 1
  /\ disp' = [IdleDisp EXCEPT !.blogId = blogId, !.platforms = platforms,
                              !.foundLen = Len(socialPosts),
                              !.i = 1,
                              !.pc = IF platforms = <<>> THEN "done" ELSE "attempt",
                              !.resp = IF platforms = <<>> THEN "201 recorded" ELSE "none"]
  /\ UNCHANGED <<socialPosts, token, env, now, issued, run, nruns>>
  /\ UNCHANGED ledgerVars

\* The creation ids POST /{account}/media may return.
ContainerIds == {"creation1", "creation2"}

\* Variant: publishMedia is given a fixed creation id.
InstagramCalls_staleId(calls, creationId) ==
  [j \in 1..Len(calls) |->
     IF calls[j].api = "ig.media"
     THEN [api |-> "ig.media", ok |-> calls[j].ok,
           returned |-> IF calls[j].ok THEN creationId ELSE None, given |-> None]
     ELSE [api |-> "ig.media_publish", ok |-> calls[j].ok,
           returned |-> IF calls[j].ok THEN "igPostId" ELSE None,
           given |-> "creation1"]]

\* The Instagram calls with what they return and are given:
\* createMediaContainer returns the creation id, publishMedia(creationId)
\* is given it and returns the post id.
InstagramCalls(calls, creationId) ==
  [j \in 1..Len(calls) |->
     IF calls[j].api = "ig.media"
     THEN [api |-> "ig.media", ok |-> calls[j].ok,
           returned |-> IF calls[j].ok THEN creationId ELSE None, given |-> None]
     ELSE [api |-> "ig.media_publish", ok |-> calls[j].ok,
           returned |-> IF calls[j].ok THEN "igPostId" ELSE None,
           given |-> creationId]]

\* instagram: with an image, createMediaContainer then publishMedia; any
\* error is caught and logged.
DispatchInstagram_rethrow ==
  /\ disp.pc = "attempt" /\ DispatchPlatform = "instagram"
  /\ \E calls \in ChainRuns(IF ImageOf(disp.blogId) /\ InstagramConfigured
                             THEN <<"ig.media", "ig.media_publish">> ELSE <<>>),
        creationId \in ContainerIds :
       IF AllOk(calls)
       THEN Attempted(InstagramCalls(calls, creationId),
                      ImageOf(disp.blogId) /\ InstagramConfigured /\ Len(calls) = 2,
                      "igPostId")
       ELSE /\ disp' = [disp EXCEPT !.pc = "done", !.resp = "500 failed to record",
                                    !.att = Append(@, [platform |-> "instagram",
                                                       calls |-> InstagramCalls(calls, creationId)])]
            /\ UNCHANGED <<socialPosts, ndisp>>
  /\ UNCHANGED <<token, env, now, issued, run, nruns>>
  /\ UNCHANGED ledgerVars
DispatchInstagram ==
  /\ disp.pc = "attempt" /\ DispatchPlatform = "instagram"
  /\ \E calls \in ChainRuns(IF ImageOf(disp.blogId) /\ InstagramConfigured
                             THEN <<"ig.media", "ig.media_publish">> ELSE <<>>),
        creationId \in ContainerIds :
       Attempted(InstagramCalls(calls, creationId),
                 ImageOf(disp.blogId) /\ InstagramConfigured
                   /\ Len(calls) = 2 /\ AllOk(calls),
                 "igPostId")
  /\ UNCHANGED <<token, env, now, issued, run, nruns>>
  /\ UNCHANGED ledgerVars

\* facebook: FacebookClient.postToPageFeed: credentials (with the page-token
\* exchange), then one photo or feed post.
DispatchFacebook ==
  /\ disp.pc = "attempt" /\ DispatchPlatform = "facebook"
  /\ IF ~FacebookConfigured
     THEN /\ Attempted(<<>>, FALSE, None)
          /\ UNCHANGED token
     ELSE \E x \in ExchangeOutcomes, ok \in BOOLEAN :
            /\ token' = [token EXCEPT !.facebook = AfterExchange(x)]
            /\ Attempted(<<[api |-> "fb.exchange", ok |-> x # "error"],
                           [api |-> IF ImageOf(disp.blogId) THEN "fb.photos" ELSE "fb.feed",
                            ok |-> ok]>>,
                         ok, "fbPostId")
  /\ UNCHANGED <<env, now, issued, run, nruns>>
  /\ UNCHANGED ledgerVars

\* Variant: createPost goes to the API without looking for credentials.
DispatchLinkedIn_unchecked ==
  /\ disp.pc = "attempt" /\ DispatchPlatform = "linkedin"
  /\ \E calls \in ChainRuns(IF ImageOf(disp.blogId)
                             THEN <<"li.initializeUpload", "image.get",
                                    "li.upload", "li.posts">>
                             ELSE <<"li.posts">>) :
       Attempted(calls,
                 calls[Len(calls)].api = "li.posts" /\ AllOk(calls),
                 "liPostUrn")
  /\ UNCHANGED <<token, env, now, issued, run, nruns>>
  /\ UNCHANGED ledgerVars

\* linkedin: LinkedInClient.createPost: credentials, the image upload when
\* the blog has an image, then the post.
DispatchLinkedIn ==
  /\ disp.pc = "attempt" /\ DispatchPlatform = "linkedin"
  /\ IF ~LinkedInConfigured
     THEN Attempted(<<>>, FALSE, None)
     ELSE \E calls \in ChainRuns(IF ImageOf(disp.blogId)
                                  THEN <<"li.initializeUpload", "image.get",
                                         "li.upload", "li.posts">>
                                  ELSE <<"li.posts">>) :
            Attempted(calls,
                      calls[Len(calls)].api = "li.posts" /\ AllOk(calls),
                      "liPostUrn")
  /\ UNCHANGED <<token, env, now, issued, run, nruns>>
  /\ UNCHANGED ledgerVars

\* twitter: simulated, no call.
DispatchTwitter ==
  /\ disp.pc = "attempt" /\ DispatchPlatform = "twitter"
  /\ disp' = [disp EXCEPT !.pc = "save", !.isPublished = TRUE,
                          !.att = Append(@, [platform |-> "twitter", calls |-> <<>>])]
  /\ UNCHANGED <<socialPosts, ndisp, token, env, now, issued, run, nruns>>
  /\ UNCHANGED ledgerVars

\* A name none of the branches matches: nothing is attempted.
DispatchOther ==
  /\ disp.pc = "attempt" /\ DispatchPlatform \notin SocialPlatforms
  /\ disp' = [disp EXCEPT !.pc = "save"]
  /\ UNCHANGED <<socialPosts, ndisp>>
  /\ UNCHANGED <<token, env, now, issued, run, nruns>>
  /\ UNCHANGED ledgerVars

\* new SocialPost({...}).save(), outside the per-platform try: the schema
\* rejects a platform outside its enum, which ends the request with 500.
\* After the last platform the 201 response carries the records made.
SocialPostOf(d) ==
  [blogId |-> d.blogId, platform |-> d.platforms[d.i],
   isPublished |-> d.isPublished, publishedId |-> d.publishedId]

DispatchSavePost_skipFailed ==
  /\ disp.pc = "save"
  /\ socialPosts' = IF disp.isPublished THEN Append(socialPosts, SocialPostOf(disp))
                    ELSE socialPosts
  /\ disp' = [disp EXCEPT !.posts = IF disp.isPublished
                                    THEN Append(@, SocialPostOf(disp)) ELSE @,
                          !.isPublished = FALSE, !.publishedId = None,
                          !.i = @ + 1,
                          !.pc = IF disp.i = Len(disp.platforms) THEN "done" ELSE "attempt",
                          !.resp = IF disp.i = Len(disp.platforms)
                                   THEN "201 recorded" ELSE "none"]
  /\ UNCHANGED <<ndisp, token, env, now, issued, run, nruns>>
  /\ UNCHANGED ledgerVars
DispatchSavePost ==
  /\ disp.pc = "save"
  /\ IF DispatchPlatform \notin SocialPlatforms
     THEN /\ disp' = [disp EXCEPT !.pc = "done", !.resp = "500 failed to record"]
          /\ UNCHANGED socialPosts
     ELSE /\ socialPosts' = Append(socialPosts, SocialPostOf(disp))
          /\ disp' = [disp EXCEPT !.posts = Append(@, SocialPostOf(disp)),
                                  !.isPublished = FALSE, !.publishedId = None,
                                  !.i = @ + 1,
                                  !.pc = IF disp.i = Len(disp.platforms)
                                         THEN "done" ELSE "attempt",
                                  !.resp = IF disp.i = Len(disp.platforms)
                                           THEN "201 recorded" ELSE "none"]
  /\ UNCHANGED <<ndisp, token, env, now, issued, run, nruns>>
  /\ UNCHANGED ledgerVars

\* ------------------------------- TokenRefreshService (part_002), LinkedIn
\* daysUntilExpiry <= 7 is the condition to refresh.
RefreshWindowDays == 7
\* Math.floor((tokenExpiresAt.getTime() - Date.now()) / (1000*60*60*24)).
DaysUntilExpiry(expiresAt, t) == (expiresAt - t) \div DayHours
\* expires_in of the token API's answer: 60 days.
TokenLifeHours == 60 * DayHours
\* The clock advances by half a day at a time.
TickHours == 12

\* The refresh tokens the token API accepts.
ValidRefreshTokens == {"rtGood", "rtNew"}

IdleRun ==
  [pc |-> "idle", order |-> <<>>, liErr |-> "none", fbErr |-> "none",
   liCalls |-> 0, saved |-> FALSE, seen |-> NoLinkedIn, left |-> 0,
   doc |-> NoLinkedIn, rfSeen |-> FALSE, rtSet |-> FALSE, resp |-> "none"]

InProgress(x) == run[x].pc \notin {"idle", "done"}

RunStep(x, r) ==
  /\ run' = [run EXCEPT ![x] = r]
  /\ UNCHANGED <<socialPosts, disp, ndisp, env>>
  /\ UNCHANGED ledgerVars

\* refreshAll() is called, by the cron job or by hand: nothing guards the
\* call, it goes straight into checkLinkedIn().
RefreshAll(x) ==
  /\ ~InProgress(x)
  /\ nruns < MaxRuns
  /\ nruns' = nruns + 1
  /\ RunStep(x, [IdleRun EXCEPT !.pc = "checkLinkedIn"])
  /\ UNCHANGED <<token, now, issued>>

\* The branch checkLinkedIn takes on the record it read: no record, or a
\* healthy token: on to Facebook; no expiry: validateToken (reads only),
\* then on to Facebook; daysUntilExpiry <= 7: refreshAccessToken.
NeedsRefresh(d, t) ==
  /\ d.present
  /\ d.tokenExpiresAt # NoExpiry
  /\ DaysUntilExpiry(d.tokenExpiresAt, t) <= RefreshWindowDays

\* checkLinkedIn: SocialToken.findOne({platform: 'linkedin'}) and the
\* decision; a store error is caught and logged.
CheckLinkedIn_uncaught(x) ==
  /\ run[x].pc = "checkLinkedIn"
  /\ \E err \in BOOLEAN :
       RunStep(x, IF err
                  THEN [run[x] EXCEPT !.order = Append(@, "linkedin"),
                                      !.liErr = "storeRead",
                                      !.pc = "done", !.resp = "threw"]
                  ELSE [run[x] EXCEPT !.order = Append(@, "linkedin"),
                                      !.seen = token.linkedin,
                                      !.left = token.linkedin.tokenExpiresAt - now,
                                      !.pc = IF NeedsRefresh(token.linkedin, now)
                                             THEN "refreshFind" ELSE "checkFacebook"])
  /\ UNCHANGED <<token, now, issued, nruns>>
CheckLinkedIn(x) ==
  /\ run[x].pc = "checkLinkedIn"
  /\ \E err \in BOOLEAN :
       RunStep(x, IF err
                  THEN [run[x] EXCEPT !.order = Append(@, "linkedin"),
                                      !.liErr = "storeRead",
                                      !.pc = "checkFacebook"]
                  ELSE [run[x] EXCEPT !.order = Append(@, "linkedin"),
                                      !.seen = token.linkedin,
                                      !.left = token.linkedin.tokenExpiresAt - now,
                                      !.pc = IF NeedsRefresh(token.linkedin, now)
                                             THEN "refreshFind" ELSE "checkFacebook"])
  /\ UNCHANGED <<token, now, issued, nruns>>

\* refreshAccessToken: findOne again; without a refresh token it returns
\* false before any call; a store error is caught and returns false.
HasRefreshToken_any(d) == d.present
HasRefreshToken(d) == d.present /\ d.refreshToken # None

RefreshFind(x) ==
  /\ run[x].pc = "refreshFind"
  /\ \E err \in BOOLEAN :
       RunStep(x, IF err
                  THEN [run[x] EXCEPT !.liErr = "storeRead", !.pc = "checkFacebook"]
                  ELSE [run[x] EXCEPT !.doc = token.linkedin,
                                      !.rfSeen = TRUE,
                                      !.pc = IF HasRefreshToken(token.linkedin)
                                             THEN "refreshCall" ELSE "checkFacebook"])
  /\ UNCHANGED <<token, now, issued, nruns>>

\* The record in memory after the token API answered: accessToken, the
\* refresh token when one came, tokenExpiresAt = Date.now() + expires_in.
RefreshedDoc_keepExpiry(d, accessToken, refreshToken, t) ==
  [d EXCEPT !.accessToken = accessToken,
            !.refreshToken = IF refreshToken # None THEN refreshToken ELSE @]
RefreshedDoc(d, accessToken, refreshToken, t) ==
  [d EXCEPT !.accessToken = accessToken,
            !.refreshToken = IF refreshToken # None THEN refreshToken ELSE @,
            !.tokenExpiresAt = t + TokenLifeHours]

\* POST /oauth/v2/accessToken (grant_type=refresh_token): the API rejects a
\* refresh token it does not know and may fail otherwise; when it answers,
\* it issues the next access token, with or without a new refresh token.
RefreshCall(x) ==
  /\ run[x].pc = "refreshCall"
  /\ \E ok \in BOOLEAN, refreshToken \in {None, "rtNew"} :
       IF ok /\ run[x].doc.refreshToken \in ValidRefreshTokens
       THEN /\ issued' = issued + 1
            /\ RunStep(x, [run[x] EXCEPT
                  !.liCalls = @ + 1,
                  !.doc = RefreshedDoc(@, issued + 1, refreshToken, now),
                  !.rtSet = refreshToken # None /\ refreshToken # run[x].doc.refreshToken,
                  !.pc = "refreshSave"])
       ELSE /\ refreshToken = None
            /\ RunStep(x, [run[x] EXCEPT !.liCalls = @ + 1,
                                          !.liErr = "tokenApi",
                                          !.pc = "checkFacebook"])
            /\ UNCHANGED issued
  /\ UNCHANGED <<token, now, nruns>>

\* tokenDoc.save(): writes the paths modified in memory (accessToken,
\* tokenExpiresAt, refreshToken when a different one came) over the stored
\* record, whatever the record holds by now.
RefreshSave(x) ==
  /\ run[x].pc = "refreshSave"
  /\ token' = [token EXCEPT !.linkedin =
                 [@ EXCEPT !.accessToken = run[x].doc.accessToken,
                           !.refreshToken = IF run[x].rtSet
                                            THEN run[x].doc.refreshToken ELSE @,
                           !.tokenExpiresAt = run[x].doc.tokenExpiresAt]]
  /\ RunStep(x, [run[x] EXCEPT !.saved = TRUE, !.pc = "checkFacebook"])
  /\ UNCHANGED <<now, issued, nruns>>

\* checkFacebook: findOne({platform: 'facebook'}); with neither a record nor
\* META_ACCESS_TOKEN it skips; a store error is caught and logged.
CheckFacebook(x) ==
  /\ run[x].pc = "checkFacebook"
  /\ \E err \in BOOLEAN :
       RunStep(x, IF err
                  THEN [run[x] EXCEPT !.order = Append(@, "facebook"),
                                      !.fbErr = "storeRead",
                                      !.pc = "done", !.resp = "returned"]
                  ELSE IF ~token.facebook.present /\ env.metaToken = None
                  THEN [run[x] EXCEPT !.order = Append(@, "facebook"),
                                      !.pc = "done", !.resp = "returned"]
                  ELSE [run[x] EXCEPT !.order = Append(@, "facebook"),
                                      !.pc = "validateFacebook"])
  /\ UNCHANGED <<token, now, issued, nruns>>

\* FacebookClient.validateToken: getCredentials (with the page-token
\* exchange and its upsert), then GET /me; every error makes it false.
ValidateFacebook(x) ==
  /\ run[x].pc = "validateFacebook"
  /\ IF ~FacebookConfigured
     THEN /\ RunStep(x, [run[x] EXCEPT !.fbErr = "credentials", !.pc = "done",
                                        !.resp = "returned"])
          /\ UNCHANGED token
     ELSE \E o \in ExchangeOutcomes, ok \in BOOLEAN :
            /\ token' = [token EXCEPT !.facebook = AfterExchange(o)]
            /\ RunStep(x, [run[x] EXCEPT !.fbErr = IF ok THEN "none" ELSE "graphApi",
                                          !.pc = "done", !.resp = "returned"])
  /\ UNCHANGED <<now, issued, nruns>>

\* Time passes.
Tick ==
  /\ now < StartNow + MaxTicks * TickHours
  /\ now' = now + TickHours
  /\ UNCHANGED <<token, env, issued, socialPosts, disp, ndisp, run, nruns>>
  /\ UNCHANGED ledgerVars

\* ------------------------------------------------------- specifications
\* State after the schools were created (coins default 0), each school made
\* one submission and a draft was generated for it: blog in draft_created,
\* assigned to the submitting school, submission in draft_created.
InitLedger ==
  /\ coins = [s \in Schools |-> 0]
  /\ ledger = <<>>
  /\ blog = [b \in Blogs |->
               [status |-> "draft_created",
                assignedSchool |-> IF b = "b1" THEN "sA" ELSE "sB",
                submissionId |-> IF b = "b1" THEN "sub1" ELSE "sub2",
                wp |-> FALSE,
                featuredImage |-> (b = "b1")]]
  /\ submission = [u \in Subs |-> [status |-> "draft_created"]]
  /\ wpPosts = 0
  /\ req = [r \in Reqs |-> IdleReq]
  /\ nreq = 0

\* No social account connected, no META_* setting, nothing dispatched.
InitSocialIdle ==
  /\ token = [linkedin |-> NoLinkedIn, facebook |-> NoFacebook]
  /\ env = [metaToken |-> None, metaPage |-> None, igAccount |-> None]
  /\ now = StartNow
  /\ issued = 0
  /\ socialPosts = <<>>
  /\ disp = IdleDisp
  /\ ndisp = 0
  /\ run = [x \in Runs |-> IdleRun]
  /\ nruns = 0

Init == InitLedger /\ InitSocialIdle

Arrive(r) ==
  \/ \E actor \in Actors, b \in Blogs \cup {NoBlog} : PublishFindBlog(r, actor, b)
  \/ \E actor \in Actors, sig \in Signatures : VerifyFindSchool(r, actor, sig)

Step(r) ==
  \/ PublishFindSchool(r)
  \/ PublishSaveSchool(r)
  \/ PublishLogDebit(r)
  \/ PublishLogReward(r)
  \/ PublishCreatePost(r)
  \/ PublishSaveBlog(r)
  \/ PublishUpdateSubmission(r)
  \/ VerifySaveSchool(r)
  \/ VerifyLogPurchase(r)

\* Requests interleave at every await.
Next == \E r \in Reqs : (nreq < MaxRequests /\ Arrive(r)) \/ Step(r)

Spec == Init /\ [][Next]_vars

\* One request at a time: a request is admitted only when none is in flight.
NextSerial ==
  \E r \in Reqs : (nreq < MaxSerialRequests /\ NoneInFlight /\ Arrive(r)) \/ Step(r)

SpecSerial == Init /\ [][NextSerial]_vars

\* ------------------------------------------------ specification: blog routes
\* Publish and payment requests together with the blog routes, one request
\* at a time.
NextBlog ==
  \E r \in Reqs :
    \/ \E actor \in Actors, b \in Blogs \cup {NoBlog}, body \in BlogBodies :
         UpdateBlog(r, actor, b, body)
    \/ \E actor \in Actors, sc \in Schools \cup {GoneSchool}, b \in Blogs \cup {NoBlog} :
         AssignBlog(r, actor, sc, b)
    \/ \E actor \in Actors, b \in Blogs \cup {NoBlog}, body \in BlogBodies :
         ReviewBlog(r, actor, b, body)
    \/ \E actor \in Actors, b \in Blogs \cup {NoBlog}, st \in BlogStatuses :
         AdminSetStatus(r, actor, b, st)
    \/ nreq < MaxBlogRequests /\ NoneInFlight /\ Arrive(r)
    \/ Step(r)

SpecBlog == Init /\ [][NextBlog]_vars

\* ------------------------------------------ specification: submission routes
\* Publish and payment requests together with the submission routes, one
\* request at a time.
NextSub ==
  \E r \in Reqs :
    \/ \E actor \in Actors, u \in Subs \cup {NoSub},
          status \in SubmissionStatuses \cup {"none"} :
         UpdateSubmission(r, actor, u, status)
    \/ \E actor \in Actors, u \in Subs \cup {NoSub} : GenerateDraft(r, actor, u)
    \/ nreq < MaxSubRequests /\ NoneInFlight /\ Arrive(r)
    \/ Step(r)

SpecSub == Init /\ [][NextSub]_vars

\* ------------------------------------------ specification: two schools
\* The school-role users of sA and sB and a writer, one request at a time:
\* sA's user sends any of the requests open to a school (blog update, review
\* update, draft generation, publish, payment); sB's user only pays and
\* publishes, and the writer only publishes, so that every change to a
\* blog's fields other than by a publish comes from sA's user.
TenantA == [role |-> "school", schoolId |-> "sA"]
TenantB == [role |-> "school", schoolId |-> "sB"]
Writer == [role |-> "writer", schoolId |-> NoSchool]

TenantArrive(r) ==
  /\ nreq < MaxTenantRequests
  /\ NoneInFlight
  /\ \/ \E actor \in {TenantA, TenantB, Writer}, b \in Blogs : PublishFindBlog(r, actor, b)
     \/ \E actor \in {TenantA, TenantB}, sig \in Signatures : VerifyFindSchool(r, actor, sig)

NextTenant ==
  \E r \in Reqs :
    \/ \E b \in Blogs, body \in BlogBodies : UpdateBlog(r, TenantA, b, body)
    \/ \E b \in Blogs, body \in BlogBodies : ReviewBlog(r, TenantA, b, body)
    \/ \E u \in Subs : GenerateDraft(r, TenantA, u)
    \/ TenantArrive(r)
    \/ Step(r)

SpecTenant == Init /\ [][NextTenant]_vars

\* -------------------------------------------------- specification: dispatch
\* The deployments a dispatch may run in: nothing set, the Facebook settings
\* only, or Facebook and Instagram settings.
EnvSettings ==
  {[metaToken |-> None, metaPage |-> None, igAccount |-> None],
   [metaToken |-> "fbUser", metaPage |-> PageId, igAccount |-> None],
   [metaToken |-> "fbPage", metaPage |-> PageId, igAccount |-> "ig1"]}

\* The LinkedIn record exchangeCodeForTokens stores, and the Facebook records
\* saveCredentials stores (the token as given when the exchange failed, the
\* page token otherwise).
ConnectedLinkedIn ==
  [present |-> TRUE, accessToken |-> 0, refreshToken |-> "rtGood",
   tokenExpiresAt |-> StartNow + 60 * DayHours, personUrn |-> PersonUrn]
StoredFacebook ==
  {[present |-> TRUE, accessToken |-> t, pageId |-> PageId] : t \in {"fbUser", "fbPage"}}

InitDispatch ==
  /\ InitLedger
  /\ token \in [linkedin : {NoLinkedIn, ConnectedLinkedIn},
                 facebook : {NoFacebook} \cup StoredFacebook]
  /\ env \in EnvSettings
  /\ now = StartNow
  /\ issued = 0
  /\ socialPosts = <<>>
  /\ disp = IdleDisp
  /\ ndisp = 0
  /\ run = [x \in Runs |-> IdleRun]
  /\ nruns = 0

NextDispatch ==
  \/ \E blogId \in Blogs \cup {NoBlog}, platforms \in PlatformLists :
       DispatchArrive(blogId, platforms)
  \/ DispatchInstagram
  \/ DispatchFacebook
  \/ DispatchLinkedIn
  \/ DispatchTwitter
  \/ DispatchOther
  \/ DispatchSavePost

SpecDispatch == InitDispatch /\ [][NextDispatch]_vars

\* --------------------------------------------------- specification: refresh
\* The LinkedIn records a refresh run may find: stored by the OAuth exchange
\* (always with expiry and personUrn, with or without refresh token; the
\* refresh token may have been revoked since) some time ago, so that the
\* expiry lies a day back, or 3, 7, 7.5, 8 or 30 days ahead.
ExpiryAhead == {0 - DayHours, 3 * DayHours, 7 * DayHours, 7 * DayHours + 12,
                8 * DayHours, 30 * DayHours}
StoredLinkedIn ==
  {[present |-> TRUE, accessToken |-> 0, refreshToken |-> rt,
    tokenExpiresAt |-> StartNow + h, personUrn |-> PersonUrn] :
     rt \in {None, "rtGood", "rtRevoked"}, h \in ExpiryAhead}

InitRefresh ==
  /\ InitLedger
  /\ token \in [linkedin : {NoLinkedIn} \cup StoredLinkedIn,
                 facebook : {NoFacebook} \cup StoredFacebook]
  /\ env \in EnvSettings
  /\ now = StartNow
  /\ issued = 0
  /\ socialPosts = <<>>
  /\ disp = IdleDisp
  /\ ndisp = 0
  /\ run = [x \in Runs |-> IdleRun]
  /\ nruns = 0

NextRefresh ==
  \/ \E x \in Runs :
       \/ RefreshAll(x)
       \/ CheckLinkedIn(x)
       \/ RefreshFind(x)
       \/ RefreshCall(x)
       \/ RefreshSave(x)
       \/ CheckFacebook(x)
       \/ ValidateFacebook(x)
  \/ Tick

SpecRefresh == InitRefresh /\ [][NextRefresh]_vars

\* ------------------------------- social account routes (ai.ts 298-428)
\* The account routes are handled while no scheduler run and no dispatch is
\* under way.
AccountsIdle == disp.pc \in {"idle", "done"} /\ \A x \in Runs : ~InProgress(x)

\* What the LinkedIn callback can meet: no code in the query, the token
\* endpoint refusing the code, the profile call failing, or both answering.
CallbackOutcomes == {"noCode", "tokenError", "profileError", "ok"}

\* The tokens a client may send to POST /social-accounts/facebook.
SentFacebookTokens == {None, "fbUser", "fbPage"}

\* The :platform values a client may send to DELETE /social-accounts.
DisconnectPlatforms == {"facebook", "linkedin", "twitter"}

\* GET /api/ai/linkedin/callback: exchangeCodeForTokens upserts the LinkedIn
\* record once the token and the profile calls have both answered.
LinkedInCallback(o) ==
  /\ AccountsIdle
  /\ token' = IF o = "ok" THEN [token EXCEPT !.linkedin = ConnectedLinkedIn] ELSE token
  /\ UNCHANGED <<env, now, issued, socialPosts, disp, ndisp, run, nruns>>
  /\ UNCHANGED ledgerVars

\* POST /api/ai/social-accounts/facebook (admin): saveCredentials upserts the
\* Facebook record with the page token when the exchange gave one, with the
\* token as sent otherwise.
SaveFacebookCredentials(role, accessToken, pageId, o) ==
  /\ AccountsIdle
  /\ token' = IF role = "admin" /\ accessToken # None /\ pageId # None
              THEN [token EXCEPT !.facebook =
                      [present |-> TRUE,
                       accessToken |-> IF o = "pageToken" THEN "fbPage" ELSE accessToken,
                       pageId |-> pageId]]
              ELSE token
  /\ UNCHANGED <<env, now, issued, socialPosts, disp, ndisp, run, nruns>>
  /\ UNCHANGED ledgerVars

\* DELETE /api/ai/social-accounts/:platform (admin): SocialToken.deleteOne.
Disconnect(role, platform) ==
  /\ AccountsIdle
  /\ token' = IF role = "admin" /\ platform \in {"facebook", "linkedin"}
              THEN [token EXCEPT ![platform] =
                      IF platform = "linkedin" THEN NoLinkedIn ELSE NoFacebook]
              ELSE token
  /\ UNCHANGED <<env, now, issued, socialPosts, disp, ndisp, run, nruns>>
  /\ UNCHANGED ledgerVars

\* ------------------------------------------ specification: social accounts
\* The account routes together with the scheduler's runs.
NextAccounts ==
  \/ \E o \in CallbackOutcomes : LinkedInCallback(o)
  \/ \E role \in {"admin", "writer"}, accessToken \in SentFacebookTokens,
        pageId \in {None, PageId}, o \in ExchangeOutcomes :
       SaveFacebookCredentials(role, accessToken, pageId, o)
  \/ \E role \in {"admin", "writer"}, platform \in DisconnectPlatforms :
       Disconnect(role, platform)
  \/ \E x \in Runs :
       \/ RefreshAll(x)
       \/ CheckLinkedIn(x)
       \/ RefreshFind(x)
       \/ RefreshCall(x)
       \/ RefreshSave(x)
       \/ CheckFacebook(x)
       \/ ValidateFacebook(x)

SpecAccounts == InitRefresh /\ [][NextAccounts]_vars

\* ================================================================ claims
\* A publish request that got as far as reading the school.
PublishReachedSchool(r) ==
  req[r].op = "publish" /\ req[r].sch \in Schools /\ req[r].pc # "findSchool"

PublishDone(r) == PublishReachedSchool(r) /\ req[r].pc = "done"

\* The debit and the reward a publish by request r logs.
DebitOf(r) ==
  Tx(req[r].sch, "debit", PublishCost, req[r].found.coins,
     req[r].found.coins - PublishCost, req[r].b)
RewardOf(r) ==
  Tx(req[r].sch, "reward", PublishReward, req[r].found.coins - PublishCost,
     req[r].found.coins - PublishCost + PublishReward, req[r].b)

\* C1: handling one request at a time (publish by a non-admin, publish by an
\* admin, payment verification), after each request every school's coins
\* equal the sum of the signed deltas of its Transactions (schools start at 0).
C1_BalanceEqualsLedgerSum ==
  NoneInFlight => \A s \in Schools : coins[s] = SumDeltas(ledger, s)

C1_Witness ==
  /\ NoneInFlight
  /\ \E r \in Reqs : PublishDone(r) /\ req[r].role # "admin" /\ req[r].did.tx = 2
  /\ \E i \in 1..Len(ledger) : ledger[i].type = "purchase"

\* C2: a publish by a school or writer that finds the assigned school with
\* at least 99 coins adds exactly two Transactions, a debit of 99 (before =
\* initial, after = initial - 99) then a reward of 50 (before = initial - 99,
\* after = initial - 49), and leaves the school with initial - 49 coins.
C2_NonAdminPublishLedger ==
  \A r \in Reqs :
    (PublishDone(r) /\ req[r].role # "admin" /\ req[r].found.coins >= PublishCost)
    => /\ Len(ledger) = req[r].found.len + 2
       /\ ledger[req[r].found.len + 1] = DebitOf(r)
       /\ ledger[req[r].found.len + 2] = RewardOf(r)
       /\ coins[req[r].sch] = req[r].found.coins - 49

C2_Witness ==
  \E r \in Reqs :
    /\ PublishDone(r) /\ req[r].role = "writer"
    /\ req[r].found.coins >= PublishCost
    /\ req[r].resp = "200 published"

\* C3: a publish by a school or writer that reads a balance below 99 is
\* answered with the insufficient-coins error and has written nothing: no
\* balance, no Transaction, no WordPress call, no blog or submission update.
C3_InsufficientBalanceRefused ==
  \A r \in Reqs :
    (PublishDone(r) /\ req[r].role # "admin" /\ req[r].cb < PublishCost)
    => /\ req[r].resp = "403 insufficient coins"
       /\ req[r].did = NoneDone
       /\ req[r].wpRes = "none"

C3_Witness ==
  \E r \in Reqs :
    /\ PublishDone(r) /\ req[r].role = "school" /\ req[r].cb < PublishCost
    /\ req[r].resp = "403 insufficient coins"

\* C4: no step of a publish request made by an admin changes a school's
\* coins or the ledger, whatever the balance.
C4_AdminPublishLeavesLedger ==
  [][\A r \in Reqs :
       (req'[r] # req[r] /\ req'[r].op = "publish" /\ req'[r].role = "admin")
       => (coins' = coins /\ ledger' = ledger)]_vars

C4_Witness ==
  \E r \in Reqs :
    /\ PublishDone(r) /\ req[r].role = "admin"
    /\ req[r].resp = "200 published"
    /\ req[r].cb < PublishCost

\* C5: two publishes by non-admins on the same school serialize their
\* balance check and debit: no two successful publishes were checked against
\* the same balance B unless the school ends with B - 98, as it would after
\* running them one after the other.
C5_PublishesSerialize ==
  \A r1, r2 \in Reqs :
    (/\ r1 # r2
     /\ PublishDone(r1) /\ PublishDone(r2)
     /\ req[r1].role # "admin" /\ req[r2].role # "admin"
     /\ req[r1].resp = "200 published" /\ req[r2].resp = "200 published"
     /\ req[r1].sch = req[r2].sch
     /\ req[r1].cb = req[r2].cb)
    => coins[req[r1].sch] = req[r1].cb - 2 * (PublishCost - PublishReward)

\* C6: no school's coins are ever negative, under every interleaving of
\* publishes and payment verifications.
C6_BalanceNeverNegative == \A s \in Schools : coins[s] >= 0

C6_Witness ==
  \E r1, r2 \in Reqs :
    /\ r1 # r2
    /\ PublishDone(r1) /\ PublishDone(r2)
    /\ req[r1].did.bal /\ req[r2].did.bal
    /\ req[r1].sch = req[r2].sch
    /\ req[r1].cb = req[r2].cb

\* C7: a publish never leaves the blog published_wp while the linked
\* submission is not: once the request has written the blog, the submission
\* is published_wp too.
C7_BlogAndSubmissionTogether ==
  \A r \in Reqs :
    (req[r].op = "publish" /\ req[r].did.blogW /\ req[r].sub \in Subs)
    => submission[req[r].sub].status = "published_wp"

\* C8: a non-admin publish calls WordPress only once the balance write and
\* both Transactions (debit, reward) are in the store.
C8_LedgerBeforeWordPress ==
  \A r \in Reqs :
    (PublishReachedSchool(r) /\ req[r].role # "admin" /\ req[r].did.wp > 0)
    => /\ req[r].did.bal
       /\ req[r].did.tx = 2
       /\ \E i, j \in 1..Len(ledger) :
            /\ i < j
            /\ ledger[i] = Tx(req[r].sch, "debit", PublishCost, req[r].cb,
                              req[r].cb - PublishCost, req[r].b)
            /\ ledger[j] = Tx(req[r].sch, "reward", PublishReward,
                              req[r].cb - PublishCost, req[r].local, req[r].b)

C8_Witness ==
  \E r \in Reqs :
    PublishReachedSchool(r) /\ req[r].role # "admin" /\ req[r].did.wp > 0

C10_ChargeKeptOnFailure ==
  \A r \in Reqs :
    (req[r].op = "publish" /\ req[r].wpRes = "threw" /\ req[r].role # "admin")
    => /\ coins[req[r].sch] = req[r].found.coins - PublishCost + PublishReward
       /\ Len(ledger) = req[r].found.len + 2
       /\ ledger[Len(ledger) - 1] = DebitOf(r)
       /\ ledger[Len(ledger)] = RewardOf(r)

C10_Witness ==
  \E r \in Reqs :
    /\ req[r].op = "publish" /\ req[r].wpRes = "threw" /\ req[r].role = "school"
    /\ req[r].did.tx = 2
    /\ req[r].found.coins = PackageCoins

\* The debit Transactions logged against school s for blog b.
DebitsFor(s, b) ==
  {i \in 1..Len(ledger) :
     /\ ledger[i].schoolId = s
     /\ ledger[i].type = "debit"
     /\ ledger[i].referenceId = b}

\* C11: a publish retried after a failed attempt does not charge twice: when
\* a non-admin publish of a blog that was not yet published_wp (so every
\* earlier attempt on it failed at createPost) has succeeded, the ledger
\* holds exactly one debit of that school with that blog's referenceId.
C11_RetryChargedOnce ==
  \A r \in Reqs :
    (/\ PublishDone(r) /\ req[r].role # "admin"
     /\ req[r].resp = "200 published"
     /\ req[r].found.status # "published_wp")
    => Cardinality(DebitsFor(req[r].sch, req[r].b)) = 1

\* ------------------------------------------------------- social dispatch
\* The request names only platforms the SocialPost schema knows.
WellFormedDispatch == \A j \in 1..Len(disp.platforms) : disp.platforms[j] \in SocialPlatforms

\* The calls attempt a had to get through all succeeded and the last of
\* them was the publishing call (the Facebook page-token exchange is
\* optional: the client goes on with the token as it is when it fails).
PublishingCalls == {"ig.media_publish", "fb.photos", "fb.feed", "li.posts"}
CallsSucceeded(a) ==
  /\ a.calls # <<>>
  /\ a.calls[Len(a.calls)].api \in PublishingCalls
  /\ \A j \in 1..Len(a.calls) : a.calls[j].api # "fb.exchange" => a.calls[j].ok
\* A call attempt a had to get through failed.
SomeCallFailed(a) ==
  \E j \in 1..Len(a.calls) : a.calls[j].api # "fb.exchange" /\ ~a.calls[j].ok

\* C12: a failing platform never ends the dispatch: the request is answered
\* 500 only when the platform at hand is one the schema does not know, and a
\* finished request naming only known platforms is answered 201 having
\* attempted every listed platform, in order, and returning one record per
\* listed platform.
C12_EveryPlatformAttempted ==
  /\ disp.resp = "500 failed to record" => DispatchPlatform \notin SocialPlatforms
  /\ (disp.pc = "done" /\ WellFormedDispatch)
     => /\ disp.resp = "201 recorded"
        /\ Len(disp.att) = Len(disp.platforms)
        /\ Len(disp.posts) = Len(disp.platforms)
        /\ \A j \in 1..Len(disp.platforms) :
             /\ disp.att[j].platform = disp.platforms[j]
             /\ disp.posts[j].platform = disp.platforms[j]

C12_Witness ==
  /\ disp.pc = "done" /\ disp.resp = "201 recorded"
  /\ Len(disp.platforms) = 2
  /\ SomeCallFailed(disp.att[1]) /\ ~disp.posts[1].isPublished
  /\ CallsSucceeded(disp.att[2]) /\ disp.posts[2].isPublished

\* C13: the dispatch stores exactly one SocialPost per platform attempted,
\* whatever the outcome: the collection grows by one record for each attempt
\* whose branch has finished, in order, each for the platform attempted, and
\* the record of an attempt with a failed call has isPublished = FALSE and
\* no publishedId.
C13_OneRecordPerAttempt ==
  LET saved == IF disp.pc = "save" /\ DispatchPlatform \in SocialPlatforms
               THEN Len(disp.att) - 1 ELSE Len(disp.att)
  IN /\ Len(socialPosts) = disp.foundLen + saved
     /\ Len(disp.posts) = saved
     /\ \A j \in 1..saved :
          /\ socialPosts[disp.foundLen + j] = disp.posts[j]
          /\ disp.posts[j].platform = disp.att[j].platform
          /\ disp.posts[j].blogId = disp.blogId
          /\ SomeCallFailed(disp.att[j])
             => (~disp.posts[j].isPublished /\ disp.posts[j].publishedId = None)

C13_Witness ==
  /\ disp.pc = "done"
  /\ \E j \in 1..Len(disp.posts) :
       /\ SomeCallFailed(disp.att[j])
       /\ socialPosts[disp.foundLen + j].isPublished = FALSE
       /\ socialPosts[disp.foundLen + j].publishedId = None

\* C14: for instagram, facebook and linkedin the record says isPublished =
\* TRUE, with a publishedId, exactly when that platform's own publishing
\* calls succeeded, and isPublished = FALSE with no publishedId otherwise,
\* whatever happened to the other platforms of the list.
C14_PublishedIffCallsSucceeded ==
  \A j \in 1..Len(disp.posts) :
    disp.posts[j].platform \in {"instagram", "facebook", "linkedin"}
    => /\ disp.posts[j].isPublished = CallsSucceeded(disp.att[j])
       /\ disp.posts[j].isPublished => disp.posts[j].publishedId # None
       /\ ~disp.posts[j].isPublished => disp.posts[j].publishedId = None

C14_Witness ==
  /\ disp.pc = "done" /\ disp.platforms = <<"instagram", "facebook">>
  /\ SomeCallFailed(disp.att[1])
  /\ disp.posts[1] = [blogId |-> disp.blogId, platform |-> "instagram",
                       isPublished |-> FALSE, publishedId |-> None]
  /\ disp.posts[2].isPublished /\ disp.posts[2].publishedId = "fbPostId"

\* --------------------------------------------------------- token refresh
\* Run x read the LinkedIn record in checkLinkedIn.
SawLinkedIn(x) == run[x].seen.present
\* The record run x read expires no later than 7 x 24 hours after the read.
SawExpiringWithinWindow(x) ==
  SawLinkedIn(x) /\ run[x].left <= RefreshWindowDays * DayHours

\* C15: a refreshAll() that found a LinkedIn token expiring within 7 days
\* with a refresh token the API accepts, and met no store or API failure,
\* has stored a new access token and ends with the access token replaced,
\* the expiry in the future and personUrn as it was.
C15_RefreshReplacesToken ==
  \A x \in Runs :
    (/\ run[x].pc = "done"
     /\ SawExpiringWithinWindow(x)
     /\ run[x].seen.refreshToken \in ValidRefreshTokens
     /\ run[x].liErr = "none")
    => /\ run[x].saved
       /\ token.linkedin.accessToken # run[x].seen.accessToken
       /\ token.linkedin.tokenExpiresAt > now
       /\ token.linkedin.personUrn = run[x].seen.personUrn

C15_Witness ==
  \E x \in Runs :
    /\ run[x].pc = "done"
    /\ run[x].left = 3 * DayHours
    /\ run[x].seen.refreshToken = "rtGood"
    /\ run[x].liErr = "none"
    /\ token.linkedin.accessToken = 1
    /\ token.linkedin.personUrn = PersonUrn

\* C16: a refreshAll() that found the LinkedIn token expiring more than
\* 7 x 24 hours ahead makes no token API call and writes nothing.
C16_NoRefreshBeyondWindow ==
  \A x \in Runs :
    (SawLinkedIn(x) /\ run[x].left > RefreshWindowDays * DayHours)
    => (run[x].liCalls = 0 /\ ~run[x].saved /\ run[x].pc # "refreshCall")

\* C17: a refresh that finds the record without refresh token makes no
\* token API call and leaves the record (access token, expiry, personUrn)
\* exactly as it found it.
C17_NoRefreshTokenNoCall ==
  \A x \in Runs :
    (run[x].rfSeen /\ run[x].doc.refreshToken = None)
    => /\ run[x].liCalls = 0
       /\ ~run[x].saved
       /\ run[x].pc # "refreshCall"
       /\ token.linkedin = run[x].doc

C17_Witness ==
  \E x \in Runs :
    /\ run[x].pc = "done"
    /\ run[x].rfSeen /\ run[x].doc.refreshToken = None
    /\ SawExpiringWithinWindow(x)
    /\ run[x].liErr = "none"

\* C18: in every refreshAll() the LinkedIn check starts first and the
\* Facebook check after it, the Facebook check runs whatever went wrong in
\* the LinkedIn check, and refreshAll() returns without raising.
C18_FacebookAfterLinkedIn ==
  \A x \in Runs :
    /\ run[x].order \in {<<>>, <<"linkedin">>, <<"linkedin", "facebook">>}
    /\ run[x].resp # "threw"
    /\ run[x].pc = "done"
       => (run[x].order = <<"linkedin", "facebook">> /\ run[x].resp = "returned")

C18_Witness ==
  \E x, y \in Runs :
    /\ run[x].pc = "done" /\ run[y].pc = "done"
    /\ run[x].liErr = "storeRead" /\ run[x].order = <<"linkedin", "facebook">>
    /\ run[y].liErr = "tokenApi" /\ run[y].fbErr # "none"
    /\ run[y].order = <<"linkedin", "facebook">>

\* C19: at most one refreshAll() is in progress at any time.
C19_OneRunAtATime == Cardinality({x \in Runs : InProgress(x)}) <= 1

\* ------------------------------------------------------------ blog routes
\* C20: in every state and for every blog, the WordPress fields
\* (wordpressPostId, wordpressUrl, publishedAt) are set exactly when the
\* blog's status is published_wp, whatever publishes, assignments, blog
\* updates, review updates and admin status updates were handled.
C20_WordPressFieldsIffPublished ==
  \A b \in Blogs : blog[b].wp <=> (blog[b].status = "published_wp")

\* --------------------------------------------------- blog state machine
TerminalStatuses == {"published_wp", "rejected"}

\* C21: published_wp and rejected are terminal: no step of any operation
\* (assign, blog update, review update, admin status update, publish)
\* changes the status of a blog that is published_wp or rejected.
C21_TerminalStatusesStay ==
  [][\A b \in Blogs :
       blog[b].status \in TerminalStatuses => blog'[b].status = blog[b].status]_vars

\* C22: a publish request that finds the blog in a status other than review
\* or approved_school neither charges the school (no balance write, no
\* Transaction) nor publishes the blog (no WordPress call, no blog write).
C22_PublishOnlyFromReview ==
  \A r \in Reqs :
    (PublishReachedSchool(r)
     /\ req[r].found.status \notin {"review", "approved_school"})
    => /\ ~req[r].did.bal /\ req[r].did.tx = 0
       /\ req[r].did.wp = 0 /\ ~req[r].did.blogW

\* C23: no step of an operation performed by a non-admin actor (draft
\* generation, publish, writer update) moves a submission's status to an
\* earlier state of submitted_school < draft_created < review < published_wp.
C23_SubmissionNeverBackwards ==
  [][\A r \in Reqs :
       (req'[r] # req[r] /\ req'[r].role # "admin")
       => \A u \in Subs :
            SubRank(submission'[u].status) >= SubRank(submission[u].status)]_vars

\* The answers POST /publish gives when one of its local preconditions fails.
PublishRefusals ==
  {"404 blog not found", "400 not assigned", "403 not authorized",
   "404 school not found", "403 insufficient coins"}

\* C24: a publish request refused for a local precondition (blog not found,
\* no assigned school, school-role actor of another school, assigned school
\* not found, insufficient balance) is refused before any mutation: the step
\* that refuses it leaves balances, ledger, blogs, submissions and the
\* WordPress posts as they were, and the request had written nothing and
\* called no external service before.
C24_RefusedBeforeMutation ==
  [][\A r \in Reqs :
       (req'[r] # req[r] /\ req'[r].op = "publish" /\ req'[r].resp \in PublishRefusals)
       => /\ UNCHANGED <<coins, ledger, blog, submission, wpPosts>>
          /\ req'[r].did = NoneDone
          /\ req'[r].wpRes = "none"]_vars

\* A publish request refused because the blog's assigned school does not exist.
C24_Witness ==
  \E r \in Reqs :
    /\ req[r].op = "publish" /\ req[r].pc = "done"
    /\ req[r].resp = "404 school not found"
    /\ blog[req[r].b].assignedSchool = GoneSchool

\* The positions of school s's Transactions in the ledger.
EntriesOf(s) == {i \in 1..Len(ledger) : ledger[i].schoolId = s}

\* The position of school s's latest Transaction.
LatestEntry(s) == CHOOSE i \in EntriesOf(s) : \A j \in EntriesOf(s) : j <= i

\* C25: a ledger application is one atomic unit: in every state, a school
\* that has Transactions has the balance its latest Transaction records as
\* coinsAfter.
C25_BalanceIsLatestCoinsAfter ==
  \A s \in Schools :
    EntriesOf(s) # {} => coins[s] = ledger[LatestEntry(s)].coinsAfter

\* C26: every Transaction in the ledger has coinsAfter = coinsBefore + coins
\* when it is a purchase or a reward and coinsAfter = coinsBefore - coins when
\* it is a debit, whatever the interleaving of the requests that wrote it.
C26_SnapshotsAddUp ==
  \A i \in 1..Len(ledger) :
    ledger[i].coinsAfter = ledger[i].coinsBefore + Signed(ledger[i])

\* The ledger holds a purchase, a debit and a reward, written by requests
\* that were in flight together.
C26_Witness ==
  /\ \A type \in {"purchase", "debit", "reward"} :
       \E i \in 1..Len(ledger) : ledger[i].type = type
  /\ \E r1, r2 \in Reqs :
       /\ r1 # r2
       /\ req[r1].did.tx > 0 /\ req[r2].did.tx > 0

\* C27: the ledger is append-only: every step keeps each Transaction already
\* in the ledger, field for field and at its place, and can only add entries
\* after them.
C27_LedgerAppendOnly ==
  [][/\ Len(ledger') >= Len(ledger)
     /\ \A i \in 1..Len(ledger) : ledger'[i] = ledger[i]]_vars

\* Entries of a payment and of a publish are in the ledger, and a later
\* request has gone through its own ledger writes after them.
C27_Witness ==
  /\ Len(ledger) >= 4
  /\ \E i, j \in 1..Len(ledger) :
       i < j /\ ledger[i].type = "purchase" /\ ledger[j].type = "reward"

\* C28: assigning a blog to a school is open to writers and admins only;
\* for them it writes the given school and the status review to that blog and
\* nothing else; the other blogs, the submissions, the balances, the ledger
\* and the WordPress posts stay as they were, and any other actor changes
\* nothing at all.
C28_AssignWritesSchoolAndStatusOnly ==
  [][\A r \in Reqs :
       (req'[r] # req[r] /\ req'[r].op = "assign")
       => /\ UNCHANGED <<coins, ledger, submission, wpPosts>>
          /\ IF req'[r].role \in {"writer", "admin"} /\ req'[r].b \in Blogs
             THEN LET b == req'[r].b
                  IN /\ req'[r].resp = "200 assigned"
                     /\ blog'[b].assignedSchool = req'[r].sch
                     /\ blog'[b].status = "review"
                     /\ \A f \in DOMAIN blog[b] \ {"assignedSchool", "status"} :
                          blog'[b][f] = blog[b][f]
                     /\ \A c \in DOMAIN blog \ {b} : blog'[c] = blog[c]
                     /\ DOMAIN blog' = DOMAIN blog
             ELSE /\ req'[r].resp \in {"403 not authorized", "404 blog not found"}
                  /\ UNCHANGED blog]_vars

\* A writer has assigned blog b1, a draft of school sA, to school sB.
C28_Witness ==
  \E r \in Reqs :
    /\ req[r].op = "assign" /\ req[r].resp = "200 assigned"
    /\ req[r].role = "writer" /\ req[r].b = "b1" /\ req[r].sch = "sB"
    /\ req[r].found.status = "draft_created"
    /\ blog["b1"].assignedSchool = "sB" /\ blog["b1"].status = "review"

\* The signature the payment provider gives for the order and the payment.
GenuineSignature == HmacSha256(<<OrderId, "|", PaymentId>>, KeySecret)

\* C29: the step that ends a payment verification has, for a school-role
\* user of an existing school whose signature is the HMAC-SHA256 of
\* orderId|paymentId under the secret, credited that school 99 coins over the
\* balance the request found and appended one purchase Transaction after the
\* entries it found, the other balances being untouched; for any other actor
\* or signature it ends the request with balances and ledger untouched.
C29_VerifyCreditsOnceOnGenuineSignature ==
  [][\A r \in Reqs :
       (req'[r] # req[r] /\ req'[r].op = "verify" /\ req'[r].pc = "done")
       => LET q == req'[r]
          IN IF q.role = "school" /\ q.sig = GenuineSignature /\ q.usch \in Schools
             THEN /\ q.resp = "200 credited"
                  /\ coins' = [coins EXCEPT ![q.usch] = q.found.coins + 99]
                  /\ Len(ledger') = q.found.len + 1
                  /\ SubSeq(ledger', 1, q.found.len) = SubSeq(ledger, 1, q.found.len)
                  /\ ledger'[Len(ledger')] =
                       Tx(q.usch, "purchase", 99, q.found.coins, q.found.coins + 99, PaymentId)
             ELSE /\ q.resp \in {"403 not authorized", "400 invalid signature"}
                  /\ q.did = NoneDone
                  /\ UNCHANGED <<coins, ledger>>]_vars

\* A school-role user's payment with the genuine signature has been credited
\* on top of an earlier balance.
C29_Witness ==
  \E r \in Reqs :
    /\ req[r].op = "verify" /\ req[r].resp = "200 credited"
    /\ req[r].sig = GenuineSignature
    /\ req[r].found.coins > 0
    /\ coins[req[r].usch] = req[r].found.coins + 99

\* C30: the scheduler's Facebook check only validates: no step of a
\* refreshAll run creates or changes the stored Facebook token record.
C30_FacebookCheckWritesNothing ==
  [][\A x \in Runs :
       run'[x] # run[x] => token'.facebook = token.facebook]_vars

\* A stored record for platform p comes into existence in this step.
Created(p) == ~token[p].present /\ token'[p].present

\* C31: a SocialToken record comes into existence only through a successful
\* LinkedIn code exchange or a manual save of the Facebook credentials: every
\* step that creates a record, the first one or one after a disconnect, is a
\* step of one of these two operations.
C31_RecordsCreatedByConnectOnly ==
  [][\A p \in {"linkedin", "facebook"} :
       Created(p)
       => \/ LinkedInCallback("ok")
          \/ \E accessToken \in SentFacebookTokens, o \in ExchangeOutcomes :
               SaveFacebookCredentials("admin", accessToken, PageId, o)]_vars

\* The credentials platform p needs are absent: no stored LinkedIn token or
\* personUrn; no Facebook token or page id, stored or in the environment; no
\* Instagram token or account id.
CredentialsMissing(p) ==
  \/ p = "linkedin" /\ ~LinkedInConfigured
  \/ p = "facebook" /\ ~FacebookConfigured
  \/ p = "instagram" /\ ~InstagramConfigured

C33_BlogAndSubmissionInLockstep ==
  NoneInFlight
  => \A b \in DOMAIN blog :
       blog[b].submissionId \in DOMAIN submission
       => (blog[b].status = "published_wp"
           <=> submission[blog[b].submissionId].status = "published_wp")

\* C34: a step of a non-admin's request that brings a blog to published_wp
\* finds in the ledger a debit of 99 coins against the blog's assigned
\* school with the blog's id as referenceId.
C34_NonAdminPublishIsCharged ==
  [][\A r \in Reqs, b \in Blogs :
       (/\ req'[r] # req[r] /\ req'[r].role # "admin"
        /\ blog[b].status # "published_wp" /\ blog'[b].status = "published_wp")
       => \E i \in 1..Len(ledger') :
            /\ ledger'[i].schoolId = blog'[b].assignedSchool
            /\ ledger'[i].type = "debit"
            /\ ledger'[i].coins = PublishCost
            /\ ledger'[i].referenceId = b]_vars

\* The purchase Transactions logged for payment id p.
PurchasesFor(p) ==
  {i \in 1..Len(ledger) : ledger[i].type = "purchase" /\ ledger[i].referenceId = p}

\* C35: a payment id yields at most one purchase Transaction, however often
\* its (order id, payment id, signature) triple is verified.
C35_PaymentCreditedOnce == Cardinality(PurchasesFor(PaymentId)) <= 1

\* C36: every SocialPost saved with isPublished true carries an external
\* post id.
C36_PublishedPostsCarryId ==
  \A i \in 1..Len(socialPosts) :
    socialPosts[i].isPublished => socialPosts[i].publishedId # None

\* C37: an Instagram attempt issues the publish call only right after a
\* create-container call that succeeded, and gives it the creation id that
\* call returned; when the blog has no featured image or the container call
\* failed, no publish call is made and isPublished stays false; the
\* SocialPost saved for the attempt carries that isPublished.
C37_InstagramContainerThenPublish ==
  [][/\ (disp.pc = "attempt" /\ DispatchPlatform = "instagram" /\ disp' # disp)
        => LET c == disp'.att[Len(disp'.att)].calls
           IN /\ disp'.att[Len(disp'.att)].platform = "instagram"
              /\ \A j \in 1..Len(c) :
                   c[j].api = "ig.media_publish"
                   => /\ j = 2
                      /\ c[1].api = "ig.media" /\ c[1].ok
                      /\ c[1].returned \in ContainerIds
                      /\ c[j].given = c[1].returned
              /\ (~ImageOf(disp.blogId) \/ (Len(c) >= 1 /\ ~c[1].ok))
                 => /\ \A j \in 1..Len(c) : c[j].api # "ig.media_publish"
                    /\ ~disp'.isPublished
     /\ (disp.pc = "save" /\ DispatchPlatform = "instagram" /\ disp' # disp)
        => /\ Len(socialPosts') = Len(socialPosts) + 1
           /\ socialPosts'[Len(socialPosts')].platform = "instagram"
           /\ socialPosts'[Len(socialPosts')].isPublished = disp.isPublished]_vars

\* An Instagram attempt whose container call returned creation2 and whose
\* publish call was given creation2, recorded as published.
C37_Witness ==
  /\ disp.pc = "done"
  /\ \E k \in 1..Len(disp.att) :
       /\ disp.att[k].platform = "instagram"
       /\ Len(disp.att[k].calls) = 2
       /\ disp.att[k].calls[1].returned = "creation2"
       /\ disp.att[k].calls[2].given = "creation2"
       /\ disp.att[k].calls[2].ok
  /\ \E i \in 1..Len(socialPosts) :
       socialPosts[i].platform = "instagram" /\ socialPosts[i].isPublished

\* C38: the requests of school sA's user change neither the balance nor the
\* Transactions of school sB. Blog b1 was created for sA, and where only
\* sA's user edits blogs a run without sA's requests never has b1 assigned
\* to sB, so sB's ledger then holds no entry for b1; the same must be true
\* of every run with sA's requests.
C38_OtherSchoolNotChargedForOwnBlog ==
  \A i \in 1..Len(ledger) :
    ledger[i].schoolId = "sB" => ledger[i].referenceId # "b1"

====
